---------------------------- MODULE Spec2Model ----------------------------
(***************************************************************************)
(* PacketCopilot MCP server (src/packet_copilot/mcp_server.py): the        *)
(* process-wide session map, the working directories it owns on disk, and  *)
(* the six MCP tools new_session / upload_pcap_base64 / convert_to_json /  *)
(* index_pcap / analyze_pcap / cleanup.                                    *)
(*                                                                         *)
(* Topology tool (src/topology_vision/topology_vision.py): the Submit      *)
(* handler of the Streamlit page, its model calls and st.session_state.    *)
(*                                                                         *)
(* External collaborators (tshark, the JSON loader and semantic chunker,   *)
(* Chroma, the hosted LLM, rmtree) are modelled by their observable        *)
(* outcomes; where an outcome is not decided by the repository's code it   *)
(* is a nondeterministic input of the calling action.                      *)
(***************************************************************************)
EXTENDS Integers, Sequences, FiniteSets, TLC

VARIABLES
    SESSIONS,   \* session_id -> dict (keys dir, pcap_path, json_path, docs, pages, qa)
    dirs,       \* directories that exist on disk (mkdtemp names)
    fs,         \* path -> file content, for every file that exists on disk
    nextDir,    \* the next name mkdtemp hands out
    wire,       \* what tshark prints for the capture whose bytes are "any"
    ret,        \* the last tool call: its name, its session id and its outcome
    ui          \* the topology page: the running Submit, its model calls, st.session_state

vars == <<SESSIONS, dirs, fs, nextDir, wire, ret, ui>>

---------------------------------------------------------------------------
(* Bounds of the model *)

\* mkdtemp is called at most this many times in one behaviour
MaxDirs == 2
\* question/answer turns kept in one engine's conversation memory
MaxTurns == 2

---------------------------------------------------------------------------
(* Inputs *)

\* data_b64 arguments and the bytes they decode to
B64Table == ("Y2FwMw==" :> "cap3") @@ ("Y2FwMA==" :> "cap0")
            @@ ("dHJ1bmM=" :> "trunc") @@ ("b2Rk" :> "odd") @@ ("YW55" :> "any")
            @@ ("bG9uZw==" :> "long")

\* session ids a caller may pass: "dir1/" stands for the id that spells the name
\* of directory 1 (a path upload_pcap_base64 returned, without its "pcap_")
\* followed by "/"
SIDS == {"s1", "s2", "x/y", "dir1/"}

Questions == {"q1"}

---------------------------------------------------------------------------
(* JSON values of the decoder's output *)

\* a layer that is a JSON object / a layer that is any other JSON value
Obj(f) == [isdict |-> TRUE, f |-> f]
NonObj(f) == [isdict |-> FALSE, f |-> f]

Pkt(layers) == ("_source" :> [layers |-> layers])

Frame1 == Pkt(("ip" :> Obj(("ip.src" :> "10.0.0.1")))
              @@ ("udp" :> Obj(("udp.port" :> "53") @@ ("udp.payload" :> "00:01")))
              @@ ("data" :> Obj(("data.data" :> "ff"))))
Frame2 == Pkt(("ip" :> Obj(("ip.src" :> "10.0.0.2")))
              @@ ("tcp" :> Obj(("tcp.port" :> "80") @@ ("tcp.payload" :> "deadbeef")
                               @@ ("tcp.segment_data" :> "de:ad"))))
Frame3 == Pkt(("tcp" :> Obj(("tcp.port" :> "443") @@ ("tcp.reassembled.data" :> "16:03")))
              @@ ("tls" :> Obj(("tls.record" :> "hs") @@ ("tls.segment.data" :> "ab"))))

\* a field value of several thousand characters, and a frame that carries one
LongValue == "3c:68:74:6d:6c:3e and 4 KB more"
FrameLong == Pkt(("ip" :> Obj(("ip.src" :> "10.0.0.3")))
                 @@ ("tcp" :> Obj(("tcp.port" :> "80")))
                 @@ ("http" :> Obj(("http.file_data" :> LongValue))))

\* file contents: capture bytes, JSON text (as written by tshark or by
\* json.dump(indent=2)), text that is not JSON, a Chroma store
PcapFile(raw) == [fmt |-> "pcap", bytes |-> raw, data |-> <<>>]
TsharkJson(data) == [fmt |-> "tshark", bytes |-> "", data |-> data]
NotJson == [fmt |-> "text", bytes |-> "", data |-> <<>>]
ChromaStore == [fmt |-> "chroma", bytes |-> "", data |-> <<>>]

\* json.load: the parsed value, or a JSONDecodeError
json_load(file) ==
    IF file.fmt \in {"tshark", "indent2"}
    THEN [ok |-> TRUE, data |-> file.data]
    ELSE [ok |-> FALSE, data |-> <<>>]

\* json.dump(data, f, indent=2)
json_dump(data) == [fmt |-> "indent2", bytes |-> "", data |-> data]

\* base64.b64decode: the bytes, or binascii.Error
b64decode(data_b64) ==
    IF data_b64 \in DOMAIN B64Table
    THEN [ok |-> TRUE, raw |-> B64Table[data_b64]]
    ELSE [ok |-> FALSE, raw |-> ""]

\* os.path.basename
basename(filename) == IF Len(filename) = 0 THEN "" ELSE filename[Len(filename)]

\* os.path.join(dir, name)
join(dir, name) == [dir |-> dir, name |-> name]

NoPath == [dir |-> 0, name |-> ""]

---------------------------------------------------------------------------
(* _pcap_to_json: the decoder and the scrub *)

\* what `tshark -nlr <capture> -T json` exits with and prints for each capture:
\* three frames; an empty capture; a capture cut short (frames printed, then
\* exit 2); three frames, one of them long; a file tshark prints no JSON for
tshark(raw) ==
    CASE raw = "cap3" -> [exit |-> 0, out |-> TsharkJson(<<Frame1, Frame2, Frame3>>)]
      [] raw = "cap0" -> [exit |-> 0, out |-> TsharkJson(<<>>)]
      [] raw = "trunc" -> [exit |-> 2, out |-> TsharkJson(<<Frame2>>)]
      [] raw = "long" -> [exit |-> 0, out |-> TsharkJson(<<Frame1, Frame2, FrameLong>>)]
      [] raw = "any" -> [exit |-> 0, out |-> TsharkJson(wire)]
      [] OTHER -> [exit |-> 0, out |-> NotJson]

\* a mutation: one of the tcp pops is missing
TcpPayloadKeysShort == {"tcp.payload", "tcp.reassembled.data"}

TcpPayloadKeys == {"tcp.payload", "tcp.segment_data", "tcp.reassembled.data"}
UdpPayloadKeys == {"udp.payload"}
TlsPayloadKeys == {"tls.segment.data"}

\* d.pop(k, None) for every k of keys
pop(d, keys) == [k \in (DOMAIN d) \ keys |-> d[k]]

\* a mutation: d.pop(k), which raises KeyError when k is missing
pop_without_default_raises(d, k) == k \notin DOMAIN d

\* whether d.pop(k, None) raises KeyError: with a default it never does
pop_raises(d, k) == FALSE

\* x = layers.get(name, {}); if isinstance(x, dict): x.pop(k, None) ...
scrub_layer(layers, name, keys) ==
    IF name \in DOMAIN layers /\ layers[name].isdict
    THEN [layers EXCEPT ![name] = Obj(pop(layers[name].f, keys))]
    ELSE layers

\* the body of `for pkt in data`
scrub_pkt(pkt) ==
    IF "_source" \in DOMAIN pkt
    THEN [pkt EXCEPT !["_source"] =
            [layers |-> scrub_layer(
                            scrub_layer(
                                scrub_layer(pkt["_source"].layers, "tcp", TcpPayloadKeys),
                                "udp", UdpPayloadKeys),
                            "tls", TlsPayloadKeys)]]
    ELSE pkt

scrub(data) == [i \in 1..Len(data) |-> scrub_pkt(data[i])]

\* whether a pop of the loop raises on this packet
pkt_raises(pkt) ==
    /\ "_source" \in DOMAIN pkt
    /\ LET layers == pkt["_source"].layers
           hit(name, keys) == /\ name \in DOMAIN layers
                              /\ layers[name].isdict
                              /\ \E k \in keys : pop_raises(layers[name].f, k)
       IN  hit("tcp", TcpPayloadKeys) \/ hit("udp", UdpPayloadKeys)
           \/ hit("tls", TlsPayloadKeys)

\* lines 42-58 on the file at json_path: json.load, the loop, json.dump
scrub_file(file) ==
    LET loaded == json_load(file)
    IN  IF ~loaded.ok THEN [exc |-> "JSONDecodeError", file |-> file]
        ELSE IF \E i \in 1..Len(loaded.data) : pkt_raises(loaded.data[i])
        THEN [exc |-> "KeyError", file |-> file]
        ELSE [exc |-> "", file |-> json_dump(scrub(loaded.data))]

---------------------------------------------------------------------------
(* _build_docs_from_json, _return_system_text, _build_chain *)

\* jq: ._source.layers | del(.data), one document per element of the list
page_of(pkt) ==
    IF "_source" \in DOMAIN pkt
    THEN [k \in (DOMAIN pkt["_source"].layers) \ {"data"} |-> pkt["_source"].layers[k]]
    ELSE << >>

\* the text of the document is longer than the chunk_size of the
\* RecursiveCharacterTextSplitter() that load_and_split() applies by default
too_long(page) == \E n \in DOMAIN page : \E k \in DOMAIN page[n].f : page[n].f[k] = LongValue

\* the pages the splitter of load_and_split() makes of one document: the
\* document itself, or its text in two parts
split_page(page) ==
    IF too_long(page)
    THEN <<[part |-> 1, layers |-> page], [part |-> 2, layers |-> page]>>
    ELSE <<[part |-> 1, layers |-> page]>>

RECURSIVE load_pages(_)
\* loader.load_and_split() on the parsed list
load_pages(data) ==
    IF data = << >> THEN << >>
    ELSE split_page(page_of(Head(data))) \o load_pages(Tail(data))

\* SemanticChunker.split_documents: k chunks of adjacent pages; the grouping is
\* the library's: one chunk for all pages and one chunk per page are the extremes
chunk(pages, k) ==
    [i \in 1..k |-> IF i < k THEN <<pages[i]>> ELSE SubSeq(pages, k, Len(pages))]

Chunkings(pages) ==
    IF Len(pages) = 0 THEN {<< >>} ELSE {chunk(pages, k) : k \in {1, Len(pages)}}

\* pcap_pages[:5]
PrimingPages == 5

_return_system_text(pages) ==
    SubSeq(pages, 1, IF Len(pages) < PrimingPages THEN Len(pages) ELSE PrimingPages)

\* the chain _build_chain returns: a fresh ConversationBufferMemory
new_chain(docs, priming, persist_dir) ==
    [persist |-> persist_dir, priming |-> priming, ndocs |-> Len(docs), history |-> << >>]

---------------------------------------------------------------------------
(* The record of a call *)

Ret(op, sid, exc, msg, path, chunks, packets, calls) ==
    [op |-> op, sid |-> sid, exc |-> exc, msg |-> msg, path |-> path,
     chunks |-> chunks, packets |-> packets, calls |-> calls,
     again |-> (op = "cleanup" /\ ret.op = op /\ ret.sid = sid)]

\* d[key] = value on a dict
Set(s, key, value) == (key :> value) @@ s

\* bool(s.get(key)): every value the tools store is truthy
Has(s, key) == key \in DOMAIN s

\* s of `s = SESSIONS[session_id]` and of `SESSIONS.pop(session_id, None)`, with
\* the empty dict where the store has no record
Record(store, sid) == IF sid \in DOMAIN store THEN store[sid] ELSE [k \in {} |-> 0]

\* directory names: n is the n-th directory mkdtemp made, in the temporary
\* directory; Nested * p + n is the n-th directory, made inside directory p
Nested == 10
Parent(d) == d \div Nested

\* d is wd or lies inside it
Within(d, wd) == d = wd \/ Parent(d) = wd

\* the directory the prefix f"pcap_{session_id}_" leads into: 0 is the temporary
\* directory itself, -1 a directory that can not exist
PrefixDir(session_id) ==
    CASE session_id = "x/y" -> -1
      [] session_id = "dir1/" -> 1
      [] OTHER -> 0

\* tempfile.mkdtemp(prefix=f"pcap_{session_id}_") raises FileNotFoundError: with
\* a "/" in the id the prefix names a directory, which does not exist
mkdtemp_raises(session_id) ==
    PrefixDir(session_id) # 0 /\ PrefixDir(session_id) \notin dirs

\* the directory tempfile.mkdtemp(prefix=f"pcap_{session_id}_") makes
mkdtemp(session_id) == Nested * PrefixDir(session_id) + nextDir

\* `"dir" not in s` is false: _session has nothing to create
HasDir(session_id) == Has(Record(SESSIONS, session_id), "dir")

\* _session(session_id) raises: the defaultdict has stored the record before
SessionRaises(session_id) == ~HasDir(session_id) /\ mkdtemp_raises(session_id)

\* SESSIONS after _session(session_id), and the directories after it
SessionStore(session_id) ==
    IF HasDir(session_id) THEN SESSIONS
    ELSE IF mkdtemp_raises(session_id)
    THEN (session_id :> Record(SESSIONS, session_id)) @@ SESSIONS
    ELSE (session_id :> Set(Record(SESSIONS, session_id), "dir", mkdtemp(session_id)))
         @@ SESSIONS

\* a mutation: the record gets a directory name and no directory is made
SessionDirsNotMade(session_id) == dirs

SessionDirs(session_id) ==
    IF HasDir(session_id) \/ mkdtemp_raises(session_id) THEN dirs
    ELSE dirs \cup {mkdtemp(session_id)}

SessionNext(session_id) ==
    IF HasDir(session_id) \/ mkdtemp_raises(session_id) THEN nextDir
    ELSE nextDir + 1

\* _session can run: it needs no new directory, or mkdtemp has one left
CanSession(session_id) ==
    \/ HasDir(session_id)
    \/ mkdtemp_raises(session_id)
    \/ nextDir <= MaxDirs

\* a tool whose _session(session_id) raised
session_raised(op, session_id) ==
    /\ SESSIONS' = SessionStore(session_id)
    /\ ret' = Ret(op, session_id, "FileNotFoundError", "", NoPath, 0, 0, {})
    /\ UNCHANGED <<dirs, fs, nextDir, wire, ui>>

---------------------------------------------------------------------------
(* Reading a session's record *)

\* the artifacts of a record: everything but its working directory
Artifacts(store, sid) ==
    [k \in (DOMAIN Record(store, sid)) \ {"dir"} |-> Record(store, sid)[k]]

\* the pipeline position read off the record:
\* 0 EMPTY, 1 UPLOADED, 2 DECODED, 3 INDEXED, 4 READY
Position(store, sid) ==
    LET s == Record(store, sid)
    IN  IF Has(s, "qa") THEN 4
        ELSE IF Has(s, "docs") THEN 3
        ELSE IF Has(s, "json_path") THEN 2
        ELSE IF Has(s, "pcap_path") THEN 1
        ELSE 0

---------------------------------------------------------------------------
(* The topology page between two runs of its script *)

\* no Submit is running: st.session_state, the button and the widget values of
\* the last run, what that run showed, and the model calls the last Submit made
Page(session_state, clicked, uploaded_file, prompt, shown, calls) ==
    [pc |-> "idle", uploaded_file |-> uploaded_file, prompt |-> prompt, clicked |-> clicked,
     image |-> "", base64_img |-> "",
     openai_raw |-> "", gemini_raw |-> "", revised_openai |-> "", revised_gemini |-> "",
     session_state |-> session_state, shown |-> shown, calls |-> calls]

---------------------------------------------------------------------------
(* State after module import *)

Init ==
    /\ SESSIONS = << >>
    /\ dirs = {}
    /\ fs = << >>
    /\ nextDir = 1
    /\ wire = << >>
    /\ ui = Page(<< >>, "", "", "", "", << >>)
    /\ ret = [op |-> "import", sid |-> "", exc |-> "", msg |-> "", path |-> NoPath,
              chunks |-> 0, packets |-> 0, calls |-> {}, again |-> FALSE]

---------------------------------------------------------------------------
(* MCP tools *)

\* uuid4: the id it draws is in no record of the store and has no "/"
new_session(sid) ==
    /\ sid \notin DOMAIN SESSIONS
    /\ PrefixDir(sid) = 0
    /\ CanSession(sid)
    /\ SESSIONS' = SessionStore(sid)
    /\ dirs' = SessionDirs(sid)
    /\ nextDir' = SessionNext(sid)
    /\ ret' = Ret("new_session", sid, "", sid, NoPath, 0, 0, {})
    /\ UNCHANGED <<fs, wire, ui>>

\* a mutation: the upload starts the record over
with_pcap_path_reset(s, pcap_path) == ("dir" :> s["dir"]) @@ ("pcap_path" :> pcap_path)

\* s["pcap_path"] = pcap_path
with_pcap_path(s, pcap_path) == Set(s, "pcap_path", pcap_path)

upload_pcap_base64(session_id, filename, data_b64) ==
    IF SessionRaises(session_id)
    THEN session_raised("upload_pcap_base64", session_id)
    ELSE /\ CanSession(session_id)
         /\ LET store == SessionStore(session_id)
                s == store[session_id]
                dec == b64decode(data_b64)
                pcap_path == join(s["dir"], basename(filename))
            IN  /\ dirs' = SessionDirs(session_id)
                /\ nextDir' = SessionNext(session_id)
                /\ UNCHANGED <<wire, ui>>
                /\ IF ~dec.ok
                   THEN /\ SESSIONS' = store
                        /\ fs' = fs
                        /\ ret' = Ret("upload_pcap_base64", session_id, "binascii.Error",
                                      "", NoPath, 0, 0, {})
                   ELSE IF pcap_path.name = "" \/ s["dir"] \notin dirs'
                   THEN /\ SESSIONS' = store
                        /\ fs' = fs
                        /\ ret' = Ret("upload_pcap_base64", session_id, "OSError",
                                      "", NoPath, 0, 0, {})
                   ELSE /\ fs' = (pcap_path :> PcapFile(dec.raw)) @@ fs
                        /\ SESSIONS' = Set(store, session_id, with_pcap_path(s, pcap_path))
                        /\ ret' = Ret("upload_pcap_base64", session_id, "",
                                      "", pcap_path, 0, 0, {})

\* _pcap_to_json(pcap_path, json_path): the exception it ends with ("" for none),
\* the files after it and the external programs it ran
_pcap_to_json(pcap_path, json_path) ==
    IF json_path.dir \notin dirs
    THEN \* the shell cannot open the redirection target: tshark is not run
         [exc |-> "CalledProcessError", fs |-> fs, calls |-> {}]
    ELSE LET run == IF pcap_path \in DOMAIN fs /\ fs[pcap_path].fmt = "pcap"
                    THEN tshark(fs[pcap_path].bytes)
                    ELSE [exit |-> 2, out |-> NotJson]
             raw == (json_path :> run.out) @@ fs
             scrubbed == scrub_file(raw[json_path])
         IN  IF run.exit # 0
             THEN [exc |-> "CalledProcessError", fs |-> raw, calls |-> {"tshark"}]
             ELSE [exc |-> scrubbed.exc, fs |-> (json_path :> scrubbed.file) @@ fs,
                   calls |-> {"tshark"}]

NoPcapMsg == "No PCAP uploaded. Call upload_pcap_base64 first."

\* a mutation: the guard returns an empty path instead of raising
no_pcap_returns == [exc |-> "", msg |-> ""]

\* raise ValueError("No PCAP uploaded. ...")
no_pcap == [exc |-> "ValueError", msg |-> NoPcapMsg]

\* a mutation: a new decode drops what was indexed from the old one
with_json_path_only(s, json_path) ==
    [k \in (DOMAIN s) \ {"docs", "pages", "qa"} |-> s[k]] @@ ("json_path" :> json_path)

\* s["json_path"] = json_path
with_json_path(s, json_path) == Set(s, "json_path", json_path)

convert_to_json(session_id) ==
    IF SessionRaises(session_id)
    THEN session_raised("convert_to_json", session_id)
    ELSE /\ CanSession(session_id)
         /\ LET store == SessionStore(session_id)
                s == store[session_id]
            IN  /\ dirs' = SessionDirs(session_id)
                /\ nextDir' = SessionNext(session_id)
                /\ UNCHANGED <<wire, ui>>
                /\ IF ~Has(s, "pcap_path")
                   THEN /\ SESSIONS' = store
                        /\ fs' = fs
                        /\ ret' = Ret("convert_to_json", session_id, no_pcap.exc,
                                      no_pcap.msg, NoPath, 0, 0, {})
                   ELSE LET json_path == [s["pcap_path"] EXCEPT !.name = @ \o ".json"]
                            r == _pcap_to_json(s["pcap_path"], json_path)
                        IN  /\ fs' = r.fs
                            /\ IF r.exc # ""
                               THEN /\ SESSIONS' = store
                                    /\ ret' = Ret("convert_to_json", session_id, r.exc,
                                                  "", NoPath, 0, 0, r.calls)
                               ELSE /\ SESSIONS' = Set(store, session_id,
                                                       with_json_path(s, json_path))
                                    /\ ret' = Ret("convert_to_json", session_id, "",
                                                  "", json_path, 0, 0, r.calls)

NoJsonMsg == "No JSON found. Call convert_to_json first."
NoDocsMsg == "No documents generated from the PCAP JSON."
\* f"Indexed {len(docs)} chunks from {len(pages)} packets.": the two numbers are
\* the chunks and packets fields of the call's record
IndexedMsg == "Indexed {chunks} chunks from {packets} packets."

\* a mutation: the guard returns a summary of nothing instead of raising
no_json_returns == [exc |-> "", msg |-> IndexedMsg]

\* raise ValueError("No JSON found. ...")
no_json == [exc |-> "ValueError", msg |-> NoJsonMsg]

\* a mutation: the emptiness check is missing
no_docs_unchecked(docs) == FALSE

\* `if not docs`
no_docs(docs) == docs = << >>

\* what JSONLoader reads at json_path: the parsed list, or not ok when the file
\* is missing or is no JSON
loaded(json_path) ==
    IF json_path \in DOMAIN fs THEN json_load(fs[json_path])
    ELSE [ok |-> FALSE, data |-> << >>]

\* a mutation: a file the loader cannot read counts as an empty list
loader_reads_nothing(json_path) == FALSE

\* loader.load_and_split() raises
loader_raises(json_path) == ~loaded(json_path).ok

\* chain: what _build_chain does: "ok"; "early", it raises before Chroma has
\* persisted anything; "late", it raises after Chroma persisted the store
index_pcap(session_id, chain) ==
    IF SessionRaises(session_id)
    THEN session_raised("index_pcap", session_id)
    ELSE /\ CanSession(session_id)
         /\ LET store == SessionStore(session_id)
                s == store[session_id]
            IN  /\ dirs' = SessionDirs(session_id)
                /\ nextDir' = SessionNext(session_id)
                /\ UNCHANGED <<wire, ui>>
                /\ IF ~Has(s, "json_path")
                   THEN /\ SESSIONS' = store
                        /\ fs' = fs
                        /\ ret' = Ret("index_pcap", session_id, no_json.exc,
                                      no_json.msg, NoPath, 0, 0, {})
                   ELSE IF loader_raises(s["json_path"])
                   THEN /\ SESSIONS' = store
                        /\ fs' = fs
                        /\ ret' = Ret("index_pcap", session_id, "LoaderError",
                                      "", NoPath, 0, 0, {"loader"})
                   ELSE LET pages == load_pages(loaded(s["json_path"]).data)
                        IN  \E docs \in Chunkings(pages) :
                            IF no_docs(docs)
                            THEN /\ SESSIONS' = store
                                 /\ fs' = fs
                                 /\ ret' = Ret("index_pcap", session_id, "ValueError",
                                               NoDocsMsg, NoPath, 0, 0, {"loader"})
                            ELSE LET s1 == Set(Set(s, "docs", docs), "pages", pages)
                                     persist_dir == join(s["dir"], "chroma_" \o session_id)
                                     qa == new_chain(docs, _return_system_text(pages), persist_dir)
                                     built == chain # "early" /\ s["dir"] \in dirs
                                 IN  /\ fs' = IF built THEN (persist_dir :> ChromaStore) @@ fs
                                              ELSE fs
                                     /\ IF chain = "ok" /\ built
                                        THEN /\ SESSIONS' = Set(store, session_id,
                                                                Set(s1, "qa", qa))
                                             /\ ret' = Ret("index_pcap", session_id, "",
                                                           IndexedMsg, NoPath, Len(docs),
                                                           Len(pages), {"loader", "chroma"})
                                        ELSE /\ SESSIONS' = Set(store, session_id, s1)
                                             /\ ret' = Ret("index_pcap", session_id, "ChainError",
                                                           "", NoPath, 0, 0, {"loader", "chroma"})

NotReadyMsg == "PCAP not indexed yet. Call index_pcap first."
NoAnswerMsg == "No response generated."

\* `if qa is None: return "PCAP not indexed yet. ..."`
not_ready == [exc |-> "", msg |-> NotReadyMsg]

\* d.get(key, default)
get(d, key, default) == IF key \in DOMAIN d THEN d[key] ELSE default

\* a mutation: the memory keeps the last turn only
remember_last_only(qa, question, answer) ==
    [qa EXCEPT !.history = <<[q |-> question, a |-> answer]>>]

\* the chain saves the turn in its ConversationBufferMemory
remember(qa, question, answer) ==
    [qa EXCEPT !.history = Append(@, [q |-> question, a |-> answer])]

\* llm: what the chain's call does: "answer", it returns {"answer": ...};
\* "no_answer", it returns a mapping without "answer"; "error", it raises
analyze_pcap(session_id, question, llm) ==
    IF SessionRaises(session_id)
    THEN session_raised("analyze_pcap", session_id)
    ELSE /\ CanSession(session_id)
         /\ LET store == SessionStore(session_id)
                s == store[session_id]
            IN  /\ dirs' = SessionDirs(session_id)
                /\ nextDir' = SessionNext(session_id)
                /\ UNCHANGED <<wire, ui>>
                /\ fs' = fs
                /\ IF ~Has(s, "qa")
                   THEN /\ SESSIONS' = store
                        /\ ret' = Ret("analyze_pcap", session_id, not_ready.exc, not_ready.msg,
                                      NoPath, 0, 0, {})
                   ELSE IF llm = "error"
                   THEN /\ SESSIONS' = store
                        /\ ret' = Ret("analyze_pcap", session_id, "LLMError", "",
                                      NoPath, 0, 0, {"llm"})
                   ELSE LET resp == IF llm = "answer"
                                    THEN ("answer" :> ("answer to " \o question))
                                    ELSE << >>
                            qa == remember(s["qa"], question, get(resp, "answer", ""))
                        IN  /\ Len(s["qa"].history) < MaxTurns
                            /\ SESSIONS' = Set(store, session_id, Set(s, "qa", qa))
                            /\ ret' = Ret("analyze_pcap", session_id, "",
                                          get(resp, "answer", NoAnswerMsg),
                                          NoPath, 0, 0, {"llm"})

\* a mutation: SESSIONS.get(session_id) in place of SESSIONS.pop(session_id, None)
store_not_popped(session_id) == SESSIONS

\* SESSIONS after SESSIONS.pop(session_id, None)
store_popped(session_id) == [k \in (DOMAIN SESSIONS) \ {session_id} |-> SESSIONS[k]]

\* a mutation: shutil.rmtree(wd) without ignore_errors
rmtree_raises(rm) == IF rm = "fail" THEN "OSError" ELSE ""

\* the exception shutil.rmtree(wd, ignore_errors=True) ends with: none
rmtree_ignoring_errors(rm) == ""

\* rm: what shutil.rmtree achieves: "ok", the tree is gone; "fail", it met an
\* error and the tree is still there
cleanup(session_id, rm) ==
    LET popped == session_id \in DOMAIN SESSIONS
        s == Record(SESSIONS, session_id)
        called == popped /\ Has(s, "dir") /\ s["dir"] \in dirs
        removes == called /\ rm = "ok"
        exc == IF called THEN rmtree_ignoring_errors(rm) ELSE ""
    IN  /\ SESSIONS' = store_popped(session_id)
        /\ dirs' = IF removes THEN {d \in dirs : ~Within(d, s["dir"])} ELSE dirs
        /\ fs' = IF removes
                 THEN [p \in {q \in DOMAIN fs : ~Within(q.dir, s["dir"])} |-> fs[p]]
                 ELSE fs
        /\ nextDir' = nextDir
        /\ UNCHANGED <<wire, ui>>
        /\ ret' = Ret("cleanup", session_id, exc, IF exc = "" THEN "ok" ELSE "",
                      NoPath, 0, 0,
                      IF ~called THEN {}
                      ELSE IF rm = "ok" THEN {"rmtree"}
                      ELSE {"rmtree", "rmtree error"})

---------------------------------------------------------------------------
(* The pipeline of one session *)

\* upload_pcap_base64 calls: <<session_id, filename, data_b64>>, a filename given
\* as its "/"-separated components; "Y2F" is base64 with bad padding
Uploads ==
    ({"s1"} \X {<<"a.pcap">>} \X {"Y2FwMw==", "Y2FwMA==", "dHJ1bmM=", "b2Rk", "Y2F"})
    \cup ({"s1"} \X {<<"..", "a.pcap.json">>, <<"up", "">>} \X {"Y2FwMw=="})
    \cup ({"x/y"} \X {<<"a.pcap">>} \X {"Y2FwMw=="})

\* the ids the tools are called with: "s1", which new_session issues, and "x/y",
\* which no new_session issues
Callers == {"s1", "x/y"}

\* the engine of the session, if it has one, has not been asked anything yet
FirstQuestion(sid) ==
    Has(Record(SESSIONS, sid), "qa") => SESSIONS[sid]["qa"].history = << >>

Next ==
    \/ new_session("s1")
    \/ \E u \in Uploads : upload_pcap_base64(u[1], u[2], u[3])
    \/ \E sid \in Callers : convert_to_json(sid)
    \/ \E chain \in {"ok", "early", "late"} : index_pcap("s1", chain)
    \/ index_pcap("x/y", "ok")
    \/ \E q \in Questions, llm \in {"answer", "no_answer", "error"} :
          FirstQuestion("s1") /\ analyze_pcap("s1", q, llm)
    \/ \E q \in Questions : analyze_pcap("x/y", q, "answer")
    \/ \E sid \in Callers : cleanup(sid, "ok")

Spec == Init /\ [][Next]_vars

---------------------------------------------------------------------------
(* Several sessions side by side: "s1", which new_session issues or a tool call
   creates; "s2", which only tool calls create; and "dir1/", whose prefix leads
   into directory 1 *)

CallersTwo == {"s1", "s2", "dir1/"}

NextTwo ==
    \/ new_session("s1")
    \/ \E sid \in CallersTwo : upload_pcap_base64(sid, <<"..", "a.pcap">>, "Y2FwMw==")
    \/ \E sid \in CallersTwo : convert_to_json(sid)
    \/ \E sid \in CallersTwo : index_pcap(sid, "ok")
    \/ \E sid \in CallersTwo, q \in Questions : analyze_pcap(sid, q, "answer")
    \/ \E sid \in CallersTwo : cleanup(sid, "ok")

SpecTwo == Init /\ [][NextTwo]_vars

---------------------------------------------------------------------------
(* A session on a disk that fails: rmtree may meet an error, and a working
   directory may be removed by something other than the server (cleanup tests
   os.path.exists before it deletes) *)

directory_removed(wd) ==
    /\ wd \in dirs
    /\ dirs' = {d \in dirs : ~Within(d, wd)}
    /\ fs' = [p \in {q \in DOMAIN fs : ~Within(q.dir, wd)} |-> fs[p]]
    /\ ret' = [ret EXCEPT !.op = "(directory removed)", !.again = FALSE]
    /\ UNCHANGED <<SESSIONS, nextDir, wire, ui>>

UploadsFaults == {"s1"} \X {<<"a.pcap">>} \X {"Y2FwMw==", "dHJ1bmM="}

\* the pipeline runs on "s1", with one question asked of an engine, as in Next; cleanup is
\* also called on "s2", an id never created, and on "x/y", whose record has no
\* directory
NextFaults ==
    \/ new_session("s1")
    \/ \E u \in UploadsFaults : upload_pcap_base64(u[1], u[2], u[3])
    \/ convert_to_json("s1")
    \/ \E chain \in {"ok", "late"} : index_pcap("s1", chain)
    \/ \E sid \in Callers, q \in Questions :
          FirstQuestion(sid) /\ analyze_pcap(sid, q, "answer")
    \/ \E sid \in SIDS, rm \in {"ok", "fail"} : cleanup(sid, rm)
    \/ \E wd \in dirs : directory_removed(wd)

SpecFaults == Init /\ [][NextFaults]_vars

---------------------------------------------------------------------------
(* Indexing whatever lies at json_path: a decoded capture of three frames or
   of none, a file overwritten by a later upload, a file that is gone *)

UploadsIndex ==
    ({"s1"} \X {<<"a.pcap">>} \X {"Y2FwMw==", "Y2FwMA==", "bG9uZw=="})
    \cup ({"s1"} \X {<<"a.pcap.json">>} \X {"Y2FwMw=="})

NextIndex ==
    \/ new_session("s1")
    \/ \E u \in UploadsIndex : upload_pcap_base64(u[1], u[2], u[3])
    \/ convert_to_json("s1")
    \/ \E chain \in {"ok", "early", "late"} : index_pcap("s1", chain)
    \/ cleanup("s1", "ok")
    \/ \E wd \in dirs : directory_removed(wd)

SpecIndex == Init /\ [][NextIndex]_vars

---------------------------------------------------------------------------
(* The scrub on any decoder output: a session holds an uploaded capture whose
   bytes are "any", and tshark prints for it any list of at most two records
   built from the layers below *)

EmptyDict == [k \in {} |-> ""]

\* the objects with some of these keys
Objects(keys) == {Obj([k \in K |-> "00:" \o k]) : K \in SUBSET keys}

\* a record's layer `name`: missing, an object, or a JSON value that is no object
LayerChoices(name, keys) ==
    {EmptyDict} \cup {(name :> o) : o \in Objects(keys)}
    \cup {(name :> NonObj([k \in keys |-> "00:" \o k]))}

WirePackets ==
    {("_index" :> [layers |-> EmptyDict])}
    \cup {Pkt(tcp @@ udp @@ tls) :
            tcp \in LayerChoices("tcp", {"tcp.port", "tcp.payload", "tcp.segment_data",
                                         "tcp.reassembled.data"}),
            udp \in LayerChoices("udp", {"udp.port", "udp.payload"}),
            tls \in LayerChoices("tls", {"tls.record", "tls.segment.data"})}

Wires == {<< >>} \cup {<<p>> : p \in WirePackets} \cup {<<Frame1, p>> : p \in WirePackets}

AnyCapture == join(1, "any.pcap")

\* the state after upload_pcap_base64("s1", "any.pcap", "YW55")
InitScrub ==
    /\ SESSIONS = ("s1" :> (("dir" :> 1) @@ ("pcap_path" :> AnyCapture)))
    /\ dirs = {1}
    /\ fs = (AnyCapture :> PcapFile(B64Table["YW55"]))
    /\ nextDir = 2
    /\ wire \in Wires
    /\ ui = Page(<< >>, "", "", "", "", << >>)
    /\ ret = [op |-> "upload_pcap_base64", sid |-> "s1", exc |-> "", msg |-> "",
              path |-> AnyCapture, chunks |-> 0, packets |-> 0, calls |-> {},
              again |-> FALSE]

\* lines 42-58 of _pcap_to_json run once more on the file a successful
\* convert_to_json left at json_path
scrub_again(session_id) ==
    /\ session_id \in DOMAIN SESSIONS
    /\ Has(SESSIONS[session_id], "json_path")
    /\ LET json_path == SESSIONS[session_id]["json_path"]
           r == scrub_file(fs[json_path])
       IN  /\ fs' = (json_path :> r.file) @@ fs
           /\ ret' = Ret("(scrub again)", session_id, r.exc, "", json_path, 0, 0, {})
    /\ UNCHANGED <<SESSIONS, dirs, nextDir, wire, ui>>

NextScrub ==
    \/ convert_to_json("s1")
    \/ scrub_again("s1")

SpecScrub == InitScrub /\ [][NextScrub]_vars

---------------------------------------------------------------------------
(* Topology tool: the Submit handler (lines 434-483) and the post-submit UI
   (lines 486-507) of topology_vision.py *)

serverVars == <<SESSIONS, dirs, fs, nextDir, wire, ret>>

\* st.file_uploader: nothing, an image, a file PIL cannot read as an image
UploadedFiles == {"", "diagram.png", "broken.png"}

\* st.text_area("Configuration Goal")
Prompts == {"", "inter-VLAN routing"}

\* what a model makes of its inputs: one of two wordings, with or without
\* white space around it
Wordings == [v : {"a", "b"}, pad : BOOLEAN]

\* the text of a completion for the inputs of a call
Completion(model, w, inputs) ==
    [pad |-> w.pad, text |-> model \o "/" \o w.v \o "(" \o inputs \o ")"]

\* str.strip() of the completion's text
strip(response) == response.text

\* Image.open(uploaded_file)
Image_open(uploaded_file) ==
    IF uploaded_file = "diagram.png" THEN [ok |-> TRUE, image |-> "image of diagram.png"]
    ELSE [ok |-> FALSE, image |-> ""]

image_to_base64(image) == "base64 of PNG of " \o image

openai_analysis(base64_image, prompt, w) ==
    strip(Completion("openai_analysis", w, base64_image \o "; " \o prompt))

gemini_analysis(image, prompt, w) ==
    strip(Completion("gemini_analysis", w, image \o "; " \o prompt))

gemini_review(openai_output, w) == strip(Completion("gemini_review", w, openai_output))

openai_review(gemini_output, w) == strip(Completion("openai_review", w, gemini_output))

gemini_synthesis(revised_openai, revised_gemini, image, original_prompt, w) ==
    strip(Completion("gemini_synthesis", w,
                     revised_openai \o "; " \o revised_gemini \o "; " \o image
                     \o "; " \o original_prompt))

\* one model call of the running Submit: its inputs and what it returned
Called(fn, args, exc, out) == [fn |-> fn, args |-> args, exc |-> exc, out |-> out]

\* the script stops at an exception: nothing is stored, the locals are gone
Aborted(call) ==
    Page(ui.session_state, ui.clicked, ui.uploaded_file, ui.prompt, "exception",
         Append(ui.calls, call))

\* a click on Submit with the widgets holding uploaded_file and prompt
Submit(uploaded_file, prompt) ==
    /\ ui.pc = "idle"
    /\ IF uploaded_file # "" /\ prompt # ""
       THEN LET opened == Image_open(uploaded_file)
            IN  IF ~opened.ok
                THEN ui' = Page(ui.session_state, "Submit", uploaded_file, prompt,
                                "exception", << >>)
                ELSE ui' = [Page(ui.session_state, "Submit", uploaded_file, prompt,
                                 "info", << >>)
                               EXCEPT !.pc = "openai_analysis",
                                      !.image = opened.image,
                                      !.base64_img = image_to_base64(opened.image)]
       ELSE ui' = Page(ui.session_state, "Submit", uploaded_file, prompt, "warning", << >>)
    /\ UNCHANGED serverVars

\* line 443
step_openai_analysis(w, ok) ==
    /\ ui.pc = "openai_analysis"
    /\ LET args == <<ui.base64_img, ui.prompt>>
           out == openai_analysis(ui.base64_img, ui.prompt, w)
       IN  IF ~ok THEN ui' = Aborted(Called("openai_analysis", args, TRUE, ""))
           ELSE ui' = [ui EXCEPT !.pc = "gemini_analysis", !.openai_raw = out,
                          !.calls = Append(@, Called("openai_analysis", args, FALSE, out))]
    /\ UNCHANGED serverVars

\* line 447
step_gemini_analysis(w, ok) ==
    /\ ui.pc = "gemini_analysis"
    /\ LET args == <<ui.image, ui.prompt>>
           out == gemini_analysis(ui.image, ui.prompt, w)
       IN  IF ~ok THEN ui' = Aborted(Called("gemini_analysis", args, TRUE, ""))
           ELSE ui' = [ui EXCEPT !.pc = "gemini_review", !.gemini_raw = out,
                          !.calls = Append(@, Called("gemini_analysis", args, FALSE, out))]
    /\ UNCHANGED serverVars

\* a mutation: Gemini is handed its own proposal
gemini_reviews_own(openai_raw, gemini_raw) == gemini_raw

\* the argument of gemini_review at line 451
gemini_reviews(openai_raw, gemini_raw) == openai_raw

\* line 451
step_gemini_review(w, ok) ==
    /\ ui.pc = "gemini_review"
    /\ LET arg == gemini_reviews(ui.openai_raw, ui.gemini_raw)
           out == gemini_review(arg, w)
       IN  IF ~ok THEN ui' = Aborted(Called("gemini_review", <<arg>>, TRUE, ""))
           ELSE ui' = [ui EXCEPT !.pc = "openai_review", !.revised_openai = out,
                          !.calls = Append(@, Called("gemini_review", <<arg>>, FALSE, out))]
    /\ UNCHANGED serverVars

\* line 455
step_openai_review(w, ok) ==
    /\ ui.pc = "openai_review"
    /\ LET out == openai_review(ui.gemini_raw, w)
       IN  IF ~ok THEN ui' = Aborted(Called("openai_review", <<ui.gemini_raw>>, TRUE, ""))
           ELSE ui' = [ui EXCEPT !.pc = "gemini_synthesis", !.revised_gemini = out,
                          !.calls = Append(@, Called("openai_review", <<ui.gemini_raw>>,
                                                     FALSE, out))]
    /\ UNCHANGED serverVars

\* lines 459-460, and the rest of the run, which shows what was made
step_gemini_synthesis(w, ok) ==
    /\ ui.pc = "gemini_synthesis"
    /\ LET args == <<ui.revised_openai, ui.revised_gemini, ui.image, ui.prompt>>
           final_config == gemini_synthesis(ui.revised_openai, ui.revised_gemini,
                                            ui.image, ui.prompt, w)
       IN  IF ~ok THEN ui' = Aborted(Called("gemini_synthesis", args, TRUE, ""))
           ELSE ui' = Page(Set(ui.session_state, "final_config", final_config),
                           ui.clicked, ui.uploaded_file, ui.prompt, "success",
                           Append(ui.calls,
                                  Called("gemini_synthesis", args, FALSE, final_config)))
    /\ UNCHANGED serverVars

\* lines 490-499: a click on "Explain This Configuration", which is there when
\* final_config is in st.session_state
Explain(ok) ==
    /\ ui.pc = "idle"
    /\ Has(ui.session_state, "final_config")
    /\ ui' = [ui EXCEPT !.clicked = "Explain",
                        !.shown = IF ok THEN "explanation" ELSE "exception"]
    /\ UNCHANGED serverVars

NextTopology ==
    \/ \E uploaded_file \in UploadedFiles, prompt \in Prompts : Submit(uploaded_file, prompt)
    \/ \E w \in Wordings, ok \in BOOLEAN : step_openai_analysis(w, ok)
    \/ \E w \in Wordings, ok \in BOOLEAN : step_gemini_analysis(w, ok)
    \/ \E w \in Wordings, ok \in BOOLEAN : step_gemini_review(w, ok)
    \/ \E w \in Wordings, ok \in BOOLEAN : step_openai_review(w, ok)
    \/ \E w \in Wordings, ok \in BOOLEAN : step_gemini_synthesis(w, ok)
    \/ \E ok \in BOOLEAN : Explain(ok)

SpecTopology == Init /\ [][NextTopology]_vars

---------------------------------------------------------------------------
(* Claims *)

\* C1: while a session has no query engine (index_pcap has not succeeded for it;
\* the id may have no record at all), analyze_pcap returns the literal not-ready
\* message without raising, sets no artifact of the record and writes no file;
\* and only a successful index_pcap on that session gives it a query engine.
\* Violated: on an id with a "/" _session raises FileNotFoundError.
C1_AskBeforeIndexNotReady ==
    [][ /\ (ret'.op = "analyze_pcap" /\ ~Has(Record(SESSIONS, ret'.sid), "qa"))
            => /\ ret'.exc = ""
               /\ ret'.msg = NotReadyMsg
               /\ Artifacts(SESSIONS', ret'.sid) = Artifacts(SESSIONS, ret'.sid)
               /\ fs' = fs
        /\ \A sid \in SIDS :
              (Has(Record(SESSIONS', sid), "qa") /\ ~Has(Record(SESSIONS, sid), "qa"))
              => (ret'.op = "index_pcap" /\ ret'.sid = sid /\ ret'.exc = "")
      ]_vars

\* C1 on the ids mkdtemp accepts, those of new_session among them: the same
\* statement holds.
C1_NotReadyWhereSessionOpens ==
    [][ (ret'.op = "analyze_pcap" /\ ~Has(Record(SESSIONS, ret'.sid), "qa")
             /\ ~mkdtemp_raises(ret'.sid))
        => /\ ret'.exc = ""
           /\ ret'.msg = NotReadyMsg
           /\ Artifacts(SESSIONS', ret'.sid) = Artifacts(SESSIONS, ret'.sid)
           /\ fs' = fs
      ]_vars

\* analyze_pcap was the first call ever made on the id: it got the not-ready
\* message, and the record holds a directory and nothing else
C1_Witness ==
    /\ ret.op = "analyze_pcap" /\ ret.msg = NotReadyMsg /\ ret.exc = ""
    /\ nextDir = 2
    /\ DOMAIN Record(SESSIONS, ret.sid) = {"dir"}
    /\ DOMAIN fs = {}

\* analyze_pcap was the first call ever made, on "x/y": it raised, and the store
\* holds an empty record for the id
C1_RaisedWitness ==
    /\ ret.op = "analyze_pcap" /\ ret.exc = "FileNotFoundError"
    /\ DOMAIN SESSIONS = {"x/y"}
    /\ DOMAIN SESSIONS["x/y"] = {}

\* C2: convert_to_json on a session with no capture uploaded (pcap_path is set
\* by a successful upload_pcap_base64 only) raises, does not run the decoder,
\* creates no file and leaves json_path unset.
C2_DecodeBeforeUploadFails ==
    [][ /\ (ret'.op = "convert_to_json" /\ ~Has(Record(SESSIONS, ret'.sid), "pcap_path"))
            => /\ ret'.exc # ""
               /\ "tshark" \notin ret'.calls
               /\ fs' = fs
               /\ ~Has(Record(SESSIONS', ret'.sid), "json_path")
        /\ \A sid \in SIDS :
              (Has(Record(SESSIONS', sid), "pcap_path")
                  /\ ~Has(Record(SESSIONS, sid), "pcap_path"))
              => (ret'.op = "upload_pcap_base64" /\ ret'.sid = sid /\ ret'.exc = "")
      ]_vars

\* convert_to_json was refused on a record that exists and has no capture
C2_Witness ==
    /\ ret.op = "convert_to_json" /\ ret.exc = "ValueError" /\ ret.msg = NoPcapMsg
    /\ DOMAIN Record(SESSIONS, ret.sid) = {"dir"}

\* C3: index_pcap on a session whose position is EMPTY or UPLOADED raises and
\* sets none of docs, pages, qa: it raises ValueError with its descriptive
\* message once the session has a directory, and the FileNotFoundError of
\* mkdtemp when _session cannot make one.
C3_IndexBeforeDecodeFails ==
    [][ (ret'.op = "index_pcap" /\ Position(SESSIONS, ret'.sid) \in {0, 1})
            => /\ IF Has(Record(SESSIONS', ret'.sid), "dir")
                  THEN ret'.exc = "ValueError" /\ ret'.msg = NoJsonMsg
                  ELSE ret'.exc = "FileNotFoundError"
               /\ DOMAIN Record(SESSIONS', ret'.sid) \cap {"docs", "pages", "qa"} = {}
      ]_vars

\* index_pcap was refused on a session that has a capture but no decoded JSON
C3_Witness ==
    /\ ret.op = "index_pcap" /\ ret.exc = "ValueError" /\ ret.msg = NoJsonMsg
    /\ Position(SESSIONS, ret.sid) = 1

\* C4: in every record, json_path set implies pcap_path set, docs set implies
\* json_path set, and qa set implies docs set and non-empty.
C4_RecordInvariant ==
    \A sid \in DOMAIN SESSIONS :
        LET s == SESSIONS[sid]
        IN  /\ Has(s, "json_path") => Has(s, "pcap_path")
            /\ Has(s, "docs") => Has(s, "json_path")
            /\ Has(s, "qa") => (Has(s, "docs") /\ Len(s["docs"]) > 0)

\* a READY record after a failed call on it
C4_Witness ==
    /\ ret.exc # ""
    /\ Position(SESSIONS, ret.sid) = 4

\* the tool whose success moves a session on from a position
StageTool(pos) ==
    CASE pos = 0 -> "upload_pcap_base64"
      [] pos = 1 -> "convert_to_json"
      [] OTHER -> "index_pcap"

\* C5 as claimed: between calls other than cleanup the position stays or advances
\* by exactly one, and it advances only by a successful call of the stage's tool
\* (the engine is built by index_pcap).
C5_OneStagePerSuccessfulCall ==
    [][ \A sid \in SIDS :
          LET a == Position(SESSIONS, sid)
              b == Position(SESSIONS', sid)
          IN  ret'.op # "cleanup"
              => /\ b \in {a, a + 1}
                 /\ b = a + 1 => (ret'.sid = sid /\ ret'.exc = "" /\ ret'.op = StageTool(a))
      ]_vars

\* C5 amended: between calls other than cleanup the position never decreases; it
\* advances only by a call on that session: EMPTY to UPLOADED by a successful
\* upload_pcap_base64, UPLOADED to DECODED by a successful convert_to_json, and
\* from DECODED by index_pcap, which runs both the index and the build stage:
\* to READY when it returns, to INDEXED when chunking succeeded and the build of
\* the engine raised; from INDEXED to READY by a successful index_pcap.
C5_ForwardOnly ==
    [][ \A sid \in SIDS :
          LET a == Position(SESSIONS, sid)
              b == Position(SESSIONS', sid)
          IN  ret'.op # "cleanup"
              => /\ b >= a
                 /\ b # a =>
                      /\ ret'.sid = sid
                      /\ \/ a = 0 /\ b = 1 /\ ret'.op = "upload_pcap_base64" /\ ret'.exc = ""
                         \/ a = 1 /\ b = 2 /\ ret'.op = "convert_to_json" /\ ret'.exc = ""
                         \/ a = 2 /\ b = 4 /\ ret'.op = "index_pcap" /\ ret'.exc = ""
                         \/ a = 2 /\ b = 3 /\ ret'.op = "index_pcap" /\ ret'.exc = "ChainError"
                         \/ a = 3 /\ b = 4 /\ ret'.op = "index_pcap" /\ ret'.exc = ""
      ]_vars

\* index_pcap raised while building the engine and left the session INDEXED
C5_Witness ==
    /\ ret.op = "index_pcap" /\ ret.exc = "ChainError"
    /\ Position(SESSIONS, ret.sid) = 3

\* C6: a call other than cleanup of that session keeps the session's record in
\* the store with every key it had, and keeps its working directory on disk.
C6_FieldsOnlyAdded ==
    [][ \A sid \in DOMAIN SESSIONS :
          ~(ret'.op = "cleanup" /\ ret'.sid = sid)
          => /\ sid \in DOMAIN SESSIONS'
             /\ DOMAIN SESSIONS[sid] \subseteq DOMAIN SESSIONS'[sid]
             /\ Has(SESSIONS[sid], "dir")
                => /\ SESSIONS'[sid]["dir"] = SESSIONS[sid]["dir"]
                   /\ SESSIONS[sid]["dir"] \in dirs => SESSIONS[sid]["dir"] \in dirs'
      ]_vars

\* a capture was uploaded again into a READY session, which is still READY
C6_Witness ==
    /\ ret.op = "upload_pcap_base64" /\ ret.exc = ""
    /\ Position(SESSIONS, ret.sid) = 4

\* C7: every cleanup returns "ok" without raising; a cleanup that repeats the
\* call before it, or is made on an id with no record in the store (never
\* created, or cleaned up), changes neither the store nor the disk.
C7_CleanupIdempotent ==
    [][ ret'.op = "cleanup"
        => /\ ret'.exc = ""
           /\ ret'.msg = "ok"
           /\ (ret'.again \/ ret'.sid \notin DOMAIN SESSIONS)
              => (SESSIONS' = SESSIONS /\ dirs' = dirs /\ fs' = fs)
      ]_vars

\* cleanup was called twice in a row on a session whose directory rmtree could
\* not delete: the directory is still there after the second call
C7_Witness ==
    /\ ret.op = "cleanup" /\ ret.again /\ ret.msg = "ok"
    /\ ret.sid = "s1"
    /\ dirs # {}

\* C8: from every state, cleanup returns "ok" without raising and the store
\* holds no record for the id afterwards; unless rmtree met an error, the
\* record's working directory and every file in it are gone (also when the
\* directory was missing already).
C8_CleanupAlwaysSafe ==
    [][ ret'.op = "cleanup"
        => LET s == Record(SESSIONS, ret'.sid)
           IN  /\ ret'.exc = ""
               /\ ret'.msg = "ok"
               /\ ret'.sid \notin DOMAIN SESSIONS'
               /\ (Has(s, "dir") /\ "rmtree error" \notin ret'.calls)
                  => /\ s["dir"] \notin dirs'
                     /\ \A p \in DOMAIN fs' : p.dir # s["dir"]
      ]_vars

\* cleanup of an indexed session whose rmtree met an error: "ok", the record is
\* gone, the Chroma store is still on disk
C8_Witness ==
    /\ ret.op = "cleanup" /\ ret.msg = "ok" /\ "rmtree error" \in ret.calls
    /\ ret.sid \notin DOMAIN SESSIONS
    /\ \E p \in DOMAIN fs : fs[p].fmt = "chroma"

\* the byte-payload fields the claim names, by section
ClaimedPayloadFields(section) ==
    CASE section = "tcp" -> {"tcp.payload", "tcp.segment_data", "tcp.reassembled.data"}
      [] section = "udp" -> {"udp.payload"}
      [] section = "tls" -> {"tls.segment.data"}
      [] OTHER -> {}

\* `after` is `before` without the payload fields of its object sections
ScrubbedRecord(before, after) ==
    /\ DOMAIN after = DOMAIN before
    /\ IF "_source" \notin DOMAIN before THEN after = before
       ELSE LET L == before["_source"].layers
                M == after["_source"].layers
            IN  /\ DOMAIN M = DOMAIN L
                /\ \A n \in DOMAIN L :
                      IF L[n].isdict
                      THEN /\ M[n].isdict
                           /\ DOMAIN M[n].f = (DOMAIN L[n].f) \ ClaimedPayloadFields(n)
                           /\ \A k \in DOMAIN M[n].f : M[n].f[k] = L[n].f[k]
                      ELSE M[n] = L[n]

\* C9: after a successful convert_to_json the output file holds, record for
\* record, what the decoder printed, without the payload fields of the tcp, udp
\* and tls sections; every other field, every other layer and every section
\* that is no JSON object are as the decoder printed them.
C9_PayloadFieldsRemoved ==
    [][ (ret'.op = "convert_to_json" /\ ret'.exc = "")
        => LET before == tshark(fs[SESSIONS[ret'.sid]["pcap_path"]].bytes).out.data
               after == fs'[ret'.path].data
           IN  /\ fs'[ret'.path].fmt = "indent2"
               /\ Len(after) = Len(before)
               /\ \A i \in 1..Len(before) : ScrubbedRecord(before[i], after[i])
      ]_vars

\* a record with tcp.payload and tcp.port was decoded: the output has its
\* tcp.port and not its tcp.payload
C9_Witness ==
    /\ ret.op = "convert_to_json" /\ ret.exc = ""
    /\ Len(wire) = 1 /\ "_source" \in DOMAIN wire[1]
    /\ "tcp" \in DOMAIN wire[1]["_source"].layers
    /\ wire[1]["_source"].layers["tcp"].isdict
    /\ {"tcp.payload", "tcp.port"} \subseteq DOMAIN wire[1]["_source"].layers["tcp"].f
    /\ DOMAIN fs[ret.path].data[1]["_source"].layers["tcp"].f
          = (DOMAIN wire[1]["_source"].layers["tcp"].f) \ ClaimedPayloadFields("tcp")

\* C10: the scrub run again on the file a successful convert_to_json wrote
\* raises nothing and writes the same file.
C10_ScrubIdempotent ==
    [][ ret'.op = "(scrub again)" => (ret'.exc = "" /\ fs' = fs) ]_vars

\* the second pass ran over a record whose tcp section had lost its payload
\* fields and which has no udp layer
C10_Witness ==
    /\ ret.op = "(scrub again)" /\ ret.exc = ""
    /\ Len(wire) = 1 /\ "_source" \in DOMAIN wire[1]
    /\ "tcp" \in DOMAIN wire[1]["_source"].layers
    /\ "udp" \notin DOMAIN wire[1]["_source"].layers
    /\ wire[1]["_source"].layers["tcp"].isdict
    /\ "tcp.payload" \in DOMAIN wire[1]["_source"].layers["tcp"].f
    /\ "tcp.payload" \notin DOMAIN fs[ret.path].data[1]["_source"].layers["tcp"].f

\* a file that holds what tshark printed, or a record that still has one of
\* the byte-payload fields
RawDecoderOutput(file) ==
    \/ file.fmt \in {"tshark", "text"}
    \/ \E i \in 1..Len(file.data) :
          /\ "_source" \in DOMAIN file.data[i]
          /\ \E n \in {"tcp", "udp", "tls"} :
                LET L == file.data[i]["_source"].layers
                IN  /\ n \in DOMAIN L
                    /\ L[n].isdict
                    /\ (DOMAIN L[n].f) \cap ClaimedPayloadFields(n) # {}

\* C11: after a convert_to_json call that ran the decoder, returned or raised,
\* the file at <capture>.json is not raw, unscrubbed decoder output.
\* Violated: when tshark exits non-zero or prints no JSON the call raises before
\* the scrub and what tshark printed stays in the file.
C11_ScrubWheneverDecoded ==
    [][ (ret'.op = "convert_to_json" /\ "tshark" \in ret'.calls)
        => LET pcap_path == SESSIONS[ret'.sid]["pcap_path"]
               json_path == [pcap_path EXCEPT !.name = @ \o ".json"]
           IN  json_path \in DOMAIN fs' => ~RawDecoderOutput(fs'[json_path])
      ]_vars

\* convert_to_json raised on a capture cut short: a.pcap.json holds the frame
\* tshark printed, tcp.payload included, and json_path is not set
C11_Witness ==
    /\ ret.op = "convert_to_json" /\ ret.exc = "CalledProcessError"
    /\ "tshark" \in ret.calls
    /\ ~Has(SESSIONS[ret.sid], "json_path")
    /\ join(SESSIONS[ret.sid]["dir"], "a.pcap.json") \in DOMAIN fs
    /\ fs[join(SESSIONS[ret.sid]["dir"], "a.pcap.json")] = TsharkJson(<<Frame2>>)

\* the files in the tree of directory wd
FilesWithin(files, wd) == [p \in {q \in DOMAIN files : Within(q.dir, wd)} |-> files[p]]

\* a call on A leaves B's record, B's working directory and the files in it as
\* they were, and every file it writes lies in A's own working directory
LeavesAlone(A, B) ==
    /\ B \in DOMAIN SESSIONS' <=> B \in DOMAIN SESSIONS
    /\ Record(SESSIONS', B) = Record(SESSIONS, B)
    /\ Has(Record(SESSIONS, B), "dir")
       => LET wd == SESSIONS[B]["dir"]
          IN  /\ wd \in dirs => wd \in dirs'
              /\ FilesWithin(fs', wd) = FilesWithin(fs, wd)
    /\ \A p \in DOMAIN fs' :
          (p \notin DOMAIN fs \/ fs'[p] # fs[p])
          => (Has(Record(SESSIONS', A), "dir") /\ p.dir = SESSIONS'[A]["dir"])

\* C12: every call on a session id A leaves the record, the working directory
\* and the files of every other session id B unchanged, and writes its files
\* inside A's own working directory.
\* Violated: a session whose id leads mkdtemp into another session's directory
\* keeps its files there, and the other session's cleanup deletes them.
C12_SessionsDoNotInterfere ==
    [][ \A A \in SIDS, B \in SIDS :
          (A # B /\ ret'.sid = A /\ ret'.op # "(directory removed)") => LeavesAlone(A, B)
      ]_vars

\* C12 between ids whose prefix leads nowhere: the statement holds.
C12_PlainIdsDoNotInterfere ==
    [][ \A A \in SIDS, B \in SIDS :
          (A # B /\ ret'.sid = A /\ ret'.op # "(directory removed)"
               /\ PrefixDir(A) = 0 /\ PrefixDir(B) = 0)
          => LeavesAlone(A, B)
      ]_vars

\* "s1" and "s2" are both READY, each with its capture, its decoded JSON and its
\* Chroma store in its own directory
C12_PlainWitness ==
    /\ Position(SESSIONS, "s1") = 4 /\ Position(SESSIONS, "s2") = 4
    /\ SESSIONS["s1"]["dir"] # SESSIONS["s2"]["dir"]
    /\ \A sid \in {"s1", "s2"} :
          Cardinality(DOMAIN FilesWithin(fs, SESSIONS[sid]["dir"])) = 3

\* cleanup of "s1" has deleted the directory and the capture of session
\* "dir1/", whose record is still in the store
C12_Witness ==
    /\ ret.op = "cleanup" /\ ret.sid = "s1"
    /\ Has(Record(SESSIONS, "dir1/"), "pcap_path")
    /\ SESSIONS["dir1/"]["dir"] \notin dirs
    /\ SESSIONS["dir1/"]["pcap_path"] \notin DOMAIN fs

\* the record of sid has a working directory that exists and that no other
\* record of the store names
OwnsDirectory(store, disk, sid) ==
    /\ Has(store[sid], "dir")
    /\ store[sid]["dir"] \in disk
    /\ \A other \in (DOMAIN store) \ {sid} :
          Has(store[other], "dir") => store[other]["dir"] # store[sid]["dir"]

\* the step gave sid a record it did not have, holding a directory made by
\* this step
FreshRecord(sid) ==
    /\ Has(SESSIONS'[sid], "dir")
    /\ SESSIONS'[sid]["dir"] \notin dirs
    /\ \A p \in DOMAIN fs : p.dir # SESSIONS'[sid]["dir"]

\* C13: every record of the store has a working directory that exists and is
\* named by no other record; new_session returns an id that was not in the store,
\* with a record holding only a directory made by the call; a record created by
\* another tool gets a directory made by that call.
\* Violated: when mkdtemp raises in _session the store keeps a record without
\* a directory.
C13_EveryRecordOwnsItsDirectory ==
    [][ /\ \A sid \in DOMAIN SESSIONS' : OwnsDirectory(SESSIONS', dirs', sid)
        /\ ret'.op = "new_session"
           => /\ ret'.msg \notin DOMAIN SESSIONS
              /\ DOMAIN SESSIONS'[ret'.msg] = {"dir"}
              /\ FreshRecord(ret'.msg)
        /\ \A sid \in (DOMAIN SESSIONS') \ (DOMAIN SESSIONS) : FreshRecord(sid)
      ]_vars

\* C13 for the ids whose prefix leads nowhere: the statement holds.
C13_PlainRecordsOwnTheirDirectory ==
    [][ /\ \A sid \in DOMAIN SESSIONS' :
              PrefixDir(sid) = 0 => OwnsDirectory(SESSIONS', dirs', sid)
        /\ ret'.op = "new_session"
           => /\ ret'.msg \notin DOMAIN SESSIONS
              /\ DOMAIN SESSIONS'[ret'.msg] = {"dir"}
              /\ FreshRecord(ret'.msg)
        /\ \A sid \in (DOMAIN SESSIONS') \ (DOMAIN SESSIONS) :
              PrefixDir(sid) = 0 => FreshRecord(sid)
      ]_vars

\* "s2" got its record from upload_pcap_base64 while "s1" had one: both records
\* have a directory of their own
C13_PlainWitness ==
    /\ ret.op = "upload_pcap_base64" /\ ret.sid = "s2" /\ ret.exc = ""
    /\ {"s1", "s2"} \subseteq DOMAIN SESSIONS
    /\ SESSIONS["s1"]["dir"] = 1
    /\ SESSIONS["s2"]["dir"] = 2

\* upload_pcap_base64 on "dir1/" raised in mkdtemp as the first call made: the
\* store holds a record for the id, and the record has no directory
C13_Witness ==
    /\ ret.op = "upload_pcap_base64" /\ ret.exc = "FileNotFoundError"
    /\ DOMAIN SESSIONS = {"dir1/"}
    /\ ~Has(SESSIONS["dir1/"], "dir")
    /\ dirs = {}

\* a record with one of pcap_path, json_path, docs, qa
HasArtifact(s) == (DOMAIN s) \cap {"pcap_path", "json_path", "docs", "qa"} # {}

\* the ids new_session returns in these behaviours
NewSessionIds == {"s1"}

\* C14 as claimed: a record with an artifact belongs to an id new_session
\* returned, and the record was there before the call that attached the artifact.
C14_CreatedExplicitlyBeforeArtifacts ==
    [][ \A sid \in DOMAIN SESSIONS' :
          HasArtifact(SESSIONS'[sid])
          => (sid \in NewSessionIds /\ sid \in DOMAIN SESSIONS)
      ]_vars

\* C14 amended: a session is created by new_session or by the first tool call
\* that names its id, before any artifact is attached: a record with an artifact
\* has a working directory, and its capture lies in it; upload_pcap_base64 on an
\* id with no record creates the record with a directory made by the call and,
\* unless mkdtemp raises, returns with the capture written there and attached;
\* only upload_pcap_base64 attaches an artifact to an id that had no record.
C14_CreatedByFirstCall ==
    [][ /\ \A sid \in DOMAIN SESSIONS' :
              HasArtifact(SESSIONS'[sid])
              => /\ Has(SESSIONS'[sid], "dir")
                 /\ Has(SESSIONS'[sid], "pcap_path")
                 /\ SESSIONS'[sid]["pcap_path"].dir = SESSIONS'[sid]["dir"]
        /\ \A sid \in (DOMAIN SESSIONS') \ (DOMAIN SESSIONS) :
              HasArtifact(SESSIONS'[sid])
              => (ret'.op = "upload_pcap_base64" /\ ret'.sid = sid /\ ret'.exc = "")
        /\ (ret'.op = "upload_pcap_base64" /\ ret'.sid \notin DOMAIN SESSIONS)
           => IF mkdtemp_raises(ret'.sid)
              THEN /\ ret'.exc = "FileNotFoundError"
                   /\ ~HasArtifact(SESSIONS'[ret'.sid])
              ELSE /\ ret'.exc = ""
                   /\ FreshRecord(ret'.sid)
                   /\ DOMAIN SESSIONS'[ret'.sid] = {"dir", "pcap_path"}
                   /\ SESSIONS'[ret'.sid]["pcap_path"] = ret'.path
                   /\ ret'.path \in DOMAIN fs'
      ]_vars

\* upload_pcap_base64 on "s2", which no new_session returned and which had no
\* record, returned: "s2" has a directory and a capture in it
C14_Witness ==
    /\ ret.op = "upload_pcap_base64" /\ ret.sid = "s2" /\ ret.exc = ""
    /\ DOMAIN SESSIONS = {"s2"}
    /\ DOMAIN SESSIONS["s2"] = {"dir", "pcap_path"}
    /\ SESSIONS["s2"]["pcap_path"] \in DOMAIN fs

\* C15: index_pcap on a session whose decoded file is missing or is no JSON
\* raises the loader's error, and on one whose decoded file holds no record
\* raises ValueError("No documents generated ..."); the call builds no engine:
\* Chroma is not called and qa is as it was before the call.
C15_IndexFailsOnBadInput ==
    [][ (ret'.op = "index_pcap" /\ Has(Record(SESSIONS, ret'.sid), "json_path"))
        => LET s == SESSIONS[ret'.sid]
               json_path == s["json_path"]
               unreadable == json_path \notin DOMAIN fs \/ ~json_load(fs[json_path]).ok
               empty == ~unreadable /\ Len(fs[json_path].data) = 0
           IN  /\ unreadable => (ret'.exc = "LoaderError" /\ ret'.msg = "")
               /\ empty => (ret'.exc = "ValueError" /\ ret'.msg = NoDocsMsg)
               /\ (unreadable \/ empty)
                  => /\ "chroma" \notin ret'.calls
                     /\ Has(SESSIONS'[ret'.sid], "qa") <=> Has(s, "qa")
                     /\ Has(s, "qa") => SESSIONS'[ret'.sid]["qa"] = s["qa"]
                     /\ Position(SESSIONS', ret'.sid) = Position(SESSIONS, ret'.sid)
      ]_vars

\* index_pcap raised on an empty capture's decoded file, which is on disk
C15_Witness ==
    /\ ret.op = "index_pcap" /\ ret.exc = "ValueError" /\ ret.msg = NoDocsMsg
    /\ Position(SESSIONS, ret.sid) = 2
    /\ SESSIONS[ret.sid]["json_path"] \in DOMAIN fs
    /\ fs[SESSIONS[ret.sid]["json_path"]] = json_dump(<< >>)

\* index_pcap raised in the loader because the decoded file is gone
C15_MissingFileReached ==
    /\ ret.op = "index_pcap" /\ ret.exc = "LoaderError"
    /\ SESSIONS[ret.sid]["json_path"] \notin DOMAIN fs

\* index_pcap raised in the loader because a later upload wrote capture bytes
\* over the decoded file
C15_UnparsableFileReached ==
    /\ ret.op = "index_pcap" /\ ret.exc = "LoaderError"
    /\ SESSIONS[ret.sid]["json_path"] \in DOMAIN fs
    /\ fs[SESSIONS[ret.sid]["json_path"]].fmt = "pcap"

\* C16: a successful index_pcap keeps one page per frame of the decoded file,
\* and its summary reports the number of chunks in docs and a record count
\* equal to the number of frames.
\* Violated: load_and_split() cuts the text of a long frame into several pages,
\* and the summary counts pages.
C16_OnePagePerFrame ==
    [][ (ret'.op = "index_pcap" /\ ret'.exc = "")
        => LET frames == fs[SESSIONS[ret'.sid]["json_path"]].data
               s == SESSIONS'[ret'.sid]
           IN  /\ Len(s["pages"]) = Len(frames)
               /\ \A i \in 1..Len(frames) : s["pages"][i].layers = page_of(frames[i])
               /\ ret'.msg = IndexedMsg
               /\ ret'.chunks = Len(s["docs"])
               /\ ret'.packets = Len(frames)
      ]_vars

\* C16 on decoded files without a long frame: the statement holds, and with
\* long frames the summary still reports the chunks in docs and the pages kept.
C16_OnePagePerShortFrame ==
    [][ (ret'.op = "index_pcap" /\ ret'.exc = "")
        => LET frames == fs[SESSIONS[ret'.sid]["json_path"]].data
               s == SESSIONS'[ret'.sid]
           IN  /\ ret'.msg = IndexedMsg
               /\ ret'.chunks = Len(s["docs"])
               /\ ret'.packets = Len(s["pages"])
               /\ Len(s["pages"]) >= Len(frames)
               /\ (\A i \in 1..Len(frames) : ~too_long(page_of(frames[i])))
                  => /\ Len(s["pages"]) = Len(frames)
                     /\ \A i \in 1..Len(frames) : s["pages"][i].layers = page_of(frames[i])
      ]_vars

\* three short frames were indexed: "Indexed 3 chunks from 3 packets."
C16_ShortWitness ==
    /\ ret.op = "index_pcap" /\ ret.exc = ""
    /\ Len(fs[SESSIONS[ret.sid]["json_path"]].data) = 3
    /\ ret.chunks = 3 /\ ret.packets = 3

\* three frames, one of them long, were indexed: the summary reports 4 packets
C16_Witness ==
    /\ ret.op = "index_pcap" /\ ret.exc = "" /\ ret.msg = IndexedMsg
    /\ Len(fs[SESSIONS[ret.sid]["json_path"]].data) = 3
    /\ ret.packets = 4
    /\ Len(SESSIONS[ret.sid]["pages"]) = 4

\* C17: a successful analyze_pcap on a READY session appends its turn, the
\* question with the answer returned, to the history of that session's engine;
\* apart from that the history of the engine a session holds does not change,
\* until a successful index_pcap on the session replaces the engine by a new
\* one, whose history is empty; a call on one session changes the history of no
\* other session's engine.
C17_MemoryOnlyGrows ==
    [][ \A sid \in SIDS :
          LET a == Record(SESSIONS, sid)
              b == Record(SESSIONS', sid)
              asked == ret'.op = "analyze_pcap" /\ ret'.sid = sid /\ ret'.exc = ""
              rebuilt == ret'.op = "index_pcap" /\ ret'.sid = sid /\ ret'.exc = ""
          IN  /\ (Has(a, "qa") /\ asked)
                 => /\ Has(b, "qa")
                    /\ \E q \in Questions :
                          b["qa"] = [a["qa"] EXCEPT
                                        !.history = Append(@,
                                            [q |-> q,
                                             a |-> IF ret'.msg = NoAnswerMsg THEN ""
                                                   ELSE ret'.msg])]
              /\ (Has(a, "qa") /\ Has(b, "qa") /\ ~asked /\ ~rebuilt)
                 => b["qa"] = a["qa"]
              /\ (Has(b, "qa") /\ rebuilt) => b["qa"].history = << >>
              /\ (Has(a, "qa") /\ ~Has(b, "qa"))
                 => (ret'.op = "cleanup" /\ ret'.sid = sid)
      ]_vars

\* "s1" was asked its second question while "s2" had been asked one: the
\* engine of "s1" remembers two turns, the engine of "s2" one
C17_Witness ==
    /\ ret.op = "analyze_pcap" /\ ret.sid = "s1" /\ ret.exc = ""
    /\ Has(Record(SESSIONS, "s1"), "qa") /\ Has(Record(SESSIONS, "s2"), "qa")
    /\ Len(SESSIONS["s1"]["qa"].history) = 2
    /\ Len(SESSIONS["s2"]["qa"].history) = 1

---------------------------------------------------------------------------
(* C18 *)

\* the order of the model calls of one Submit
StageOrder ==
    <<"openai_analysis", "gemini_analysis", "gemini_review", "openai_review",
      "gemini_synthesis">>

\* C18: the model calls of one Submit with an image and a goal are made in the
\* order generate (OpenAI), generate (Gemini), Gemini's review, OpenAI's
\* review, synthesis, each one only after the calls before it returned; both
\* generators get the image and the goal, Gemini reviews the raw OpenAI output
\* and OpenAI the raw Gemini output, the synthesis gets both reviewed outputs
\* with the image and the goal; final_config changes in st.session_state only
\* when the synthesis returns, to what it returned; a Submit without an image
\* or without a goal makes no call and leaves st.session_state as it was.
C18_SubmitPipeline ==
    [][LET c == ui'.calls
           n == Len(ui'.calls)
       IN  /\ n <= Len(StageOrder)
           /\ \A i \in 1..n : c[i].fn = StageOrder[i]
           /\ \A i \in 1..(n - 1) : ~c[i].exc
           /\ n >= 1 => \E uploaded_file \in UploadedFiles \ {""}, prompt \in Prompts \ {""} :
                           /\ ui'.uploaded_file = uploaded_file /\ ui'.prompt = prompt
                           /\ c[1].args
                                = <<image_to_base64(Image_open(uploaded_file).image), prompt>>
                           /\ n >= 2 => c[2].args = <<Image_open(uploaded_file).image, prompt>>
                           /\ n >= 5 => c[5].args = <<c[3].out, c[4].out,
                                                      Image_open(uploaded_file).image, prompt>>
           /\ n >= 3 => c[3].args = <<c[1].out>>
           /\ n >= 4 => c[4].args = <<c[2].out>>
           /\ ui'.session_state # ui.session_state
                => /\ ui.pc = "gemini_synthesis"
                   /\ n = 5 /\ ~c[5].exc
                   /\ ui'.session_state = Set(ui.session_state, "final_config", c[5].out)
           /\ (ui.pc = "idle" /\ ui'.clicked = "Submit"
               /\ (ui'.uploaded_file = "" \/ ui'.prompt = ""))
                => /\ ui'.calls = << >> /\ ui'.pc = "idle"
                   /\ ui'.session_state = ui.session_state
      ]_vars

\* a Submit ran all five calls and its synthesis is what st.session_state holds
C18_Witness ==
    /\ ui.pc = "idle" /\ ui.shown = "success"
    /\ Len(ui.calls) = 5
    /\ ui.calls[3].args = <<ui.calls[1].out>>
    /\ ui.calls[4].args = <<ui.calls[2].out>>
    /\ Has(ui.session_state, "final_config")
    /\ ui.session_state["final_config"] = ui.calls[5].out

\* a Submit without a goal was answered with the warning, after an earlier
\* Submit had stored a configuration
C18_WarningReached ==
    /\ ui.shown = "warning" /\ ui.clicked = "Submit" /\ ui.prompt = ""
    /\ ui.calls = << >>
    /\ Has(ui.session_state, "final_config")

---------------------------------------------------------------------------
(* C19 *)

\* the name convert_to_json gives the decode of the capture at pcap_path
JsonPathOf(pcap_path) == [pcap_path EXCEPT !.name = @ \o ".json"]

\* the file at json_path is the scrubbed decode of the bytes now at pcap_path
DecodeOfCapture(pcap_path, json_path) ==
    /\ pcap_path \in DOMAIN fs /\ json_path \in DOMAIN fs
    /\ fs[pcap_path].fmt = "pcap"
    /\ LET run == tshark(fs[pcap_path].bytes)
       IN  /\ run.exit = 0
           /\ scrub_file(run.out).exc = ""
           /\ fs[json_path] = scrub_file(run.out).file

\* C19: whenever a session's json_path is set it is pcap_path + ".json" and the
\* file there is the scrubbed decode of the capture bytes now at pcap_path.
\* Violated: upload_pcap_base64 stores the new capture and the new pcap_path and
\* leaves json_path, and the file it names, as the last convert_to_json made them.
C19_JsonIsDecodeOfCapture ==
    \A sid \in DOMAIN SESSIONS :
        Has(SESSIONS[sid], "json_path")
          => /\ Has(SESSIONS[sid], "pcap_path")
             /\ SESSIONS[sid]["json_path"] = JsonPathOf(SESSIONS[sid]["pcap_path"])
             /\ DecodeOfCapture(SESSIONS[sid]["pcap_path"], SESSIONS[sid]["json_path"])

\* index_pcap returned its summary of three packets for a session whose capture
\* is by now the empty one
C19_Witness ==
    /\ ret.op = "index_pcap" /\ ret.sid = "s1" /\ ret.exc = "" /\ ret.packets = 3
    /\ Has(Record(SESSIONS, "s1"), "pcap_path")
    /\ SESSIONS["s1"]["pcap_path"] \in DOMAIN fs
    /\ fs[SESSIONS["s1"]["pcap_path"]] = PcapFile("cap0")
    /\ SESSIONS["s1"]["json_path"] = JsonPathOf(SESSIONS["s1"]["pcap_path"])

\* an upload named like the decode of the first capture put capture bytes where
\* json_path points: the session's JSON file is no JSON
C19_OverwrittenReached ==
    /\ Has(Record(SESSIONS, "s1"), "json_path")
    /\ SESSIONS["s1"]["pcap_path"] = SESSIONS["s1"]["json_path"]
    /\ fs[SESSIONS["s1"]["json_path"]].fmt = "pcap"

---------------------------------------------------------------------------
(* C20 *)

\* the stages whose failure the caller answers by calling the stage again
Stages == {"upload_pcap_base64", "convert_to_json", "index_pcap"}

\* what the stages record of their work
StageKeys == {"pcap_path", "json_path", "docs", "pages", "qa"}

\* the part of a session's record the stages write
StageResults(store, sid) ==
    [k \in (DOMAIN Record(store, sid)) \cap StageKeys |-> Record(store, sid)[k]]

\* C20: a stage call that raises leaves pcap_path, json_path, docs, pages and qa
\* of the session's record as they were before the call.
\* Violated: index_pcap stores docs and pages (lines 149-150) before it builds
\* the query engine (line 153), so a failure there leaves the new docs and pages
\* in the record, next to the old qa if there was one.
C20_FailedStageLeavesRecord ==
    [][ (ret'.op \in Stages /\ ret'.exc # "")
        => StageResults(SESSIONS', ret'.sid) = StageResults(SESSIONS, ret'.sid)
      ]_vars

\* index_pcap raised while building the query engine of a session that had only
\* its capture and its JSON: docs and pages are set, qa is not
C20_Witness ==
    /\ ret.op = "index_pcap" /\ ret.sid = "s1" /\ ret.exc = "ChainError"
    /\ Has(Record(SESSIONS, "s1"), "docs")
    /\ Has(Record(SESSIONS, "s1"), "pages")
    /\ ~Has(Record(SESSIONS, "s1"), "qa")

\* C20, for the two stages before index_pcap: an upload_pcap_base64 or a
\* convert_to_json that raises leaves pcap_path, json_path, docs, pages and qa as
\* they were.
C20_UploadAndConvertLeaveRecord ==
    [][ (ret'.op \in Stages \ {"index_pcap"} /\ ret'.exc # "")
        => StageResults(SESSIONS', ret'.sid) = StageResults(SESSIONS, ret'.sid)
      ]_vars

\* a convert_to_json raised in a session that holds an earlier decode
C20_ConvertFailedReached ==
    /\ ret.op = "convert_to_json" /\ ret.sid = "s1" /\ ret.exc = "CalledProcessError"
    /\ Has(Record(SESSIONS, "s1"), "json_path")

---------------------------------------------------------------------------
(* C21 *)

\* the tools that open the session of their session_id with _session
SessionTools == {"upload_pcap_base64", "convert_to_json", "index_pcap", "analyze_pcap"}

\* what the call of ret' found and left for an id that had no record: a record
\* with a directory made by this call, holding at most the capture this call
\* stored there, and the answer of a session with nothing in it
SeesFreshSession ==
    LET sid == ret'.sid
        s == Record(SESSIONS', sid)
    IN  /\ sid \in DOMAIN SESSIONS'
        /\ FreshRecord(sid)
        /\ DOMAIN s \subseteq {"dir", "pcap_path"}
        /\ Has(s, "pcap_path")
             => /\ ret'.op = "upload_pcap_base64" /\ ret'.exc = ""
                /\ s["pcap_path"].dir = s["dir"]
        /\ ret'.op = "analyze_pcap" => (ret'.exc = "" /\ ret'.msg = NotReadyMsg)
        /\ ret'.op = "convert_to_json" => (ret'.exc = "ValueError" /\ ret'.msg = NoPcapMsg)
        /\ ret'.op = "index_pcap" => (ret'.exc = "ValueError" /\ ret'.msg = NoJsonMsg)

\* C21: cleanup(session_id) leaves the store without a record for the id, also
\* when rmtree could not delete the directory, and a later call of a tool on an
\* id without a record sees a fresh session: a new working directory, none of
\* json_path, docs, pages, qa, and the not-ready message or the ordering error.
\* Violated: on an id like "x/y" the later call raises FileNotFoundError in
\* _session and leaves a record without a directory (see C1).
C21_DestroyedSessionIsGone ==
    [][ /\ ret'.op = "cleanup" => ret'.sid \notin DOMAIN SESSIONS'
        /\ (ret'.op \in SessionTools /\ ret'.sid \notin DOMAIN SESSIONS)
             => SeesFreshSession
      ]_vars

\* C21 on the ids mkdtemp accepts, those of new_session among them: the same
\* statement holds.
C21_PlainDestroyedSessionIsGone ==
    [][ /\ ret'.op = "cleanup" => ret'.sid \notin DOMAIN SESSIONS'
        /\ (ret'.op \in SessionTools /\ ret'.sid \notin DOMAIN SESSIONS
            /\ ~mkdtemp_raises(ret'.sid))
             => SeesFreshSession
      ]_vars

\* "s1" was indexed in directory 1 and cleaned up with rmtree failing, so its
\* files are still there; analyze_pcap on "s1" then got the not-ready message
\* and a record with directory 2 and nothing else
C21_PlainWitness ==
    /\ ret.op = "analyze_pcap" /\ ret.sid = "s1" /\ ret.msg = NotReadyMsg
    /\ DOMAIN Record(SESSIONS, "s1") = {"dir"}
    /\ SESSIONS["s1"]["dir"] = 2
    /\ 1 \in dirs
    /\ join(1, "chroma_s1") \in DOMAIN fs

\* the store had no record for "x/y", as cleanup("x/y") leaves it: analyze_pcap
\* on "x/y" raised, and the store holds a record without a directory
C21_Witness ==
    /\ ret.op = "analyze_pcap" /\ ret.sid = "x/y" /\ ret.exc = "FileNotFoundError"
    /\ "x/y" \in DOMAIN SESSIONS /\ ~Has(SESSIONS["x/y"], "dir")
===========================================================================
